---- MODULE Spec2Model ----
(***************************************************************************)
(* Model of the diagnosis request pipeline of MediSense-AI:                *)
(*   src/server.ts            app.post("/api/diagnose"), getCacheKey,      *)
(*                            diagnosisCache, cacheHits, cacheMisses       *)
(*   src/src/lib/medicalLogic.ts   validateVitals, selectModel             *)
(*                                                                         *)
(* JavaScript strings are sequences of one-character strings, so that      *)
(* parseFloat, parseInt and split are computed and not assumed.  Symptom   *)
(* names are atoms ordered by SymRank (the UTF-16 order Array.sort uses).  *)
(* sha256 is modelled as an injective tag around the serialised data.      *)
(***************************************************************************)
EXTENDS Integers, Sequences, FiniteSets, TLC

\* ------------------------------------------------------------------ bounds
MaxReqs == 2
\* hours the clock advances in one Tick
TickHours == 3
\* the clock stops advancing here
MaxClock == 9
\* longest temperature string handed to validateVitals directly
MaxTempLen == 4
\* longest diastolic part of a blood-pressure string handed to validateVitals
\* directly; the systolic part is at most one character longer
MaxPartLen == 2
\* longest symptom list handed to getCacheKey directly
MaxListLen == 3
\* how far around the thresholds of selectModel the lengths are taken
Around == 2
\* the number of rows ever inserted into table history
MaxRows == 3

\* ------------------------------------------------------- program constants
\* stdTTL of diagnosisCache, in hours (6 * 60 * 60 seconds)
stdTTL == 6
TempLow == 30
TempHigh == 45
MaxSystolic == 300
MinDiastolic == 20
MaxAddInfoLen == 200
MaxPreExistingLen == 50
MaxSimpleSymptoms == 5

\* ------------------------------------------------------------ JS values
\* an optional string: undefined, or a sequence of characters
NoStr == [def |-> FALSE, s |-> <<>>]
Str(cs) == [def |-> TRUE, s |-> cs]
\* JS truthiness of an optional string: defined and non-empty
Truthy(os) == os.def /\ Len(os.s) > 0

\* a number as parseFloat / parseInt deliver it: NaN, or m / 10^d
NaN == [nan |-> TRUE, m |-> 0, d |-> 0]
Num(n) == [nan |-> FALSE, m |-> n, d |-> 0]
RECURSIVE Pow10(_)
Pow10(d) == IF d = 0 THEN 1 ELSE 10 * Pow10(d - 1)
\* a < b on JS numbers: false when either side is NaN
NumLt(a, b) == /\ ~a.nan
               /\ ~b.nan
               /\ a.m * Pow10(b.d) < b.m * Pow10(a.d)

DigitVal == [c \in {"0", "1", "2", "3", "4", "5", "6", "7", "8", "9"} |->
               CASE c = "0" -> 0 [] c = "1" -> 1 [] c = "2" -> 2 [] c = "3" -> 3
                 [] c = "4" -> 4 [] c = "5" -> 5 [] c = "6" -> 6 [] c = "7" -> 7
                 [] c = "8" -> 8 [] c = "9" -> 9]
IsDigit(c) == c \in DOMAIN DigitVal

Drop(s, n) == SubSeq(s, n + 1, Len(s))

RECURSIVE SkipSpaces(_)
SkipSpaces(s) == IF Len(s) > 0 /\ Head(s) = " " THEN SkipSpaces(Tail(s)) ELSE s

\* length of the longest prefix of s made of digits
RECURSIVE DigitRun(_)
DigitRun(s) == IF Len(s) > 0 /\ IsDigit(Head(s)) THEN 1 + DigitRun(Tail(s)) ELSE 0

\* value of a sequence of digits
RECURSIVE DigitsValue(_)
DigitsValue(s) == IF Len(s) = 0 THEN 0
                  ELSE 10 * DigitsValue(SubSeq(s, 1, Len(s) - 1)) + DigitVal[s[Len(s)]]

HasSign(s) == Len(s) > 0 /\ Head(s) \in {"+", "-"}
SignOf(s) == IF Len(s) > 0 /\ Head(s) = "-" THEN -1 ELSE 1

\* parseInt(str): leading blanks, an optional sign, then the longest run of
\* digits; NaN when there is no digit
parseInt(str) ==
  LET t == SkipSpaces(str)
      u == IF HasSign(t) THEN Tail(t) ELSE t
      n == DigitRun(u)
  IN IF n = 0 THEN NaN
     ELSE Num(SignOf(t) * DigitsValue(SubSeq(u, 1, n)))

\* parseFloat(str): leading blanks, an optional sign, digits, an optional
\* point followed by digits; NaN when there is no digit
parseFloat(str) ==
  LET t == SkipSpaces(str)
      u == IF HasSign(t) THEN Tail(t) ELSE t
      n == DigitRun(u)
      rest == Drop(u, n)
      f == IF Len(rest) > 0 /\ Head(rest) = "." THEN DigitRun(Tail(rest)) ELSE 0
      frac == IF f = 0 THEN <<>> ELSE SubSeq(rest, 2, f + 1)
  IN IF n + f = 0 THEN NaN
     ELSE [nan |-> FALSE,
           m |-> SignOf(t) * DigitsValue(SubSeq(u, 1, n) \o frac),
           d |-> f]

\* str.split(sep) for a one-character separator
RECURSIVE SplitAcc(_, _, _)
SplitAcc(s, sep, cur) ==
  IF Len(s) = 0 THEN <<cur>>
  ELSE IF Head(s) = sep THEN <<cur>> \o SplitAcc(Tail(s), sep, <<>>)
  ELSE SplitAcc(Tail(s), sep, Append(cur, Head(s)))
split(s, sep) == SplitAcc(s, sep, <<>>)

\* ------------------------------------------------------------- medicalLogic
NoVitals == [def |-> FALSE, temperature |-> NoStr, bloodPressure |-> NoStr,
             heartRate |-> NoStr, spO2 |-> NoStr]
Vitals(t, bp) == [def |-> TRUE, temperature |-> t, bloodPressure |-> bp,
                  heartRate |-> NoStr, spO2 |-> NoStr]

NoDemographics == [def |-> FALSE, age |-> NoStr, gender |-> NoStr,
                   preExistingConditions |-> NoStr]
Demographics(pre) == [def |-> TRUE, age |-> NoStr, gender |-> NoStr,
                      preExistingConditions |-> pre]

Valid == [valid |-> TRUE, error |-> "", suggestion |-> ""]
TempInvalid ==
  [valid |-> FALSE,
   error |-> "The temperature provided is outside of physiological limits.",
   suggestion |-> "Please double-check your thermometer reading and try again."]
BpInvalid ==
  [valid |-> FALSE,
   error |-> "The blood pressure reading appears to be invalid.",
   suggestion |-> "Ensure systolic (top number) is higher than diastolic (bottom number) and re-enter."]

\* mutant of TempOutOfRange: the two limits are outside the range
TempOutOfRange_Exclusive(vitals) ==
  LET temp == parseFloat(IF Truthy(vitals.temperature) THEN vitals.temperature.s ELSE <<>>)
  IN /\ Truthy(vitals.temperature)
     /\ ~temp.nan
     /\ ~(NumLt(Num(TempLow), temp) /\ NumLt(temp, Num(TempHigh)))

\* the temperature rule of validateVitals
TempOutOfRange(vitals) ==
  LET temp == parseFloat(IF Truthy(vitals.temperature) THEN vitals.temperature.s ELSE <<>>)
  IN /\ Truthy(vitals.temperature)
     /\ ~temp.nan
     /\ (NumLt(temp, Num(TempLow)) \/ NumLt(Num(TempHigh), temp))

\* mutant of BpOutOfRange: the limits 300 and 20 are rejected too
BpOutOfRange_Exclusive(vitals) ==
  /\ Truthy(vitals.bloodPressure)
  /\ LET bpParts == split(vitals.bloodPressure.s, "/")
     IN /\ Len(bpParts) = 2
        /\ LET systolic == parseInt(bpParts[1])
               diastolic == parseInt(bpParts[2])
           IN \/ NumLt(systolic, diastolic)
              \/ NumLt(Num(MaxSystolic - 1), systolic)
              \/ NumLt(diastolic, Num(MinDiastolic + 1))

\* the blood-pressure rule of validateVitals
BpOutOfRange(vitals) ==
  /\ Truthy(vitals.bloodPressure)
  /\ LET bpParts == split(vitals.bloodPressure.s, "/")
     IN /\ Len(bpParts) = 2
        /\ LET systolic == parseInt(bpParts[1])
               diastolic == parseInt(bpParts[2])
           IN \/ NumLt(systolic, diastolic)
              \/ NumLt(Num(MaxSystolic), systolic)
              \/ NumLt(diastolic, Num(MinDiastolic))

validateVitals(vitals) ==
  IF ~vitals.def THEN Valid
  ELSE IF TempOutOfRange(vitals) THEN TempInvalid
  ELSE IF BpOutOfRange(vitals) THEN BpInvalid
  ELSE Valid

ModelPro == "gemini-3.1-pro-preview"
ModelFlash == "gemini-3-flash-preview"

\* mutant of selectModel: the thresholds themselves escalate
selectModel_Inclusive(symptoms, additionalInfo, demographics) ==
  LET isComplex ==
        \/ (Truthy(additionalInfo) /\ Len(additionalInfo.s) >= MaxAddInfoLen)
        \/ (/\ demographics.def
            /\ Truthy(demographics.preExistingConditions)
            /\ Len(demographics.preExistingConditions.s) >= MaxPreExistingLen)
        \/ Len(symptoms) >= MaxSimpleSymptoms
  IN IF isComplex THEN ModelPro ELSE ModelFlash

\* selectModel(symptoms, additionalInfo, demographics); symptoms is a list
selectModel(symptoms, additionalInfo, demographics) ==
  LET isComplex ==
        \/ (Truthy(additionalInfo) /\ Len(additionalInfo.s) > MaxAddInfoLen)
        \/ (/\ demographics.def
            /\ Truthy(demographics.preExistingConditions)
            /\ Len(demographics.preExistingConditions.s) > MaxPreExistingLen)
        \/ Len(symptoms) > MaxSimpleSymptoms
  IN IF isComplex THEN ModelPro ELSE ModelFlash

\* levels[urgency]: undefined, which compares false with every number, for
\* an urgency that is not a key of levels
levels(urgency) == CASE urgency = "Emergency" -> Num(3)
                     [] urgency = "Urgent" -> Num(2)
                     [] urgency = "Routine" -> Num(1)
                     [] OTHER -> NaN
RECURSIVE reduce(_, _)
\* conditions.reduce((prev, curr) =>
\*   levels[curr.urgency] > levels[prev] ? curr.urgency : prev, prev)
reduce(conditions, prev) ==
  IF Len(conditions) = 0 THEN prev
  ELSE LET curr == Head(conditions)
       IN reduce(Tail(conditions),
                 IF NumLt(levels(prev), levels(curr.urgency)) THEN curr.urgency ELSE prev)
\* the conditions whose urgency is a key of levels
Known(conditions) == SelectSeq(conditions, LAMBDA c : ~levels(c.urgency).nan)
\* mutant of calculateRiskScore: the last condition of known urgency wins
calculateRiskScore_LastWins(conditions) ==
  IF Len(Known(conditions)) = 0 THEN "Routine"
  ELSE Known(conditions)[Len(Known(conditions))].urgency
calculateRiskScore(conditions) == reduce(conditions, "Routine")

\* ------------------------------------------------------------ getCacheKey
Hash(data) == [sha256 |-> data]

Cough == "Cough"
Fever == "Fever"
Headache == "Headache"
\* the order Array.prototype.sort() puts the symptom names in
SymRank(n) == CASE n = "Cough" -> 1 [] n = "Fever" -> 2 [] n = "Headache" -> 3

RECURSIVE Insert(_, _)
Insert(x, s) == IF Len(s) = 0 THEN <<x>>
                ELSE IF SymRank(x) < SymRank(Head(s)) THEN <<x>> \o s
                ELSE <<Head(s)>> \o Insert(x, Tail(s))
\* symptoms.sort(): the list in ascending order, repeated names kept
RECURSIVE Sort(_)
Sort(s) == IF Len(s) = 0 THEN <<>> ELSE Insert(s[Len(s)], Sort(SubSeq(s, 1, Len(s) - 1)))

\* mutant of getCacheKey: the list is serialised as it was given
getCacheKey_Unsorted(symptoms, vitals, demographics) ==
  Hash([symptoms |-> symptoms, vitals |-> vitals, demographics |-> demographics])

getCacheKey(symptoms, vitals, demographics) ==
  Hash([symptoms |-> Sort(symptoms), vitals |-> vitals, demographics |-> demographics])

\* --------------------------------------------------------- request inputs
\* req.body.symptoms: undefined, a string (not a list), or a list of names
NoSymptoms == [t |-> "undef", v |-> <<>>]
StrSymptoms(n) == [t |-> "str", v |-> <<n>>]
Arr(l) == [t |-> "arr", v |-> l]

\* a number of the wearable summary as it arrives in JSON: null or a number
Null == [null |-> TRUE, n |-> 0]
NoWearable == [def |-> FALSE, avgSteps |-> Null, avgHeartRate |-> Null, sleepHours |-> Null]
\* the summary of /api/wearable/data when the provider returned no buckets:
\* undefined / 7 is NaN, which res.json sends as null
NullWearable == [def |-> TRUE, avgSteps |-> Null, avgHeartRate |-> Null, sleepHours |-> Null]

\* the Authorization header: absent, a token that fails verification, or a
\* token verified for a user
NoCred == [t |-> "none", uid |-> ""]
BadCred == [t |-> "bad", uid |-> ""]
Cred(u) == [t |-> "ok", uid |-> u]

Body(cred, symptoms, additionalInfo, vitals, demographics, wearableData) ==
  [cred |-> cred, symptoms |-> symptoms, additionalInfo |-> additionalInfo,
   vitals |-> vitals, demographics |-> demographics, wearableData |-> wearableData]

OkVitals == Vitals(Str(<<"3", "7">>), Str(<<"1", "2", "0", "/", "8", "0">>))
HotVitals == Vitals(Str(<<"5", "0">>), NoStr)
BadBpVitals == Vitals(NoStr, Str(<<"8", "0", "/", "1", "2", "0">>))
Addendum == Str(<<"w", "o", "r", "s", "e">>)
\* pre-existing conditions one character longer than selectModel's threshold
LongConditions == Str([i \in 1..(MaxPreExistingLen + 1) |-> "x"])

\* the requests a client submits in this model
Inputs ==
  << Body(NoCred, Arr(<<Fever, Cough>>), NoStr, NoVitals, NoDemographics, NoWearable),
     Body(Cred("u1"), Arr(<<Cough, Fever>>), Addendum, NoVitals, NoDemographics, NoWearable),
     Body(BadCred, Arr(<<Fever>>), Str(<<>>), OkVitals, Demographics(LongConditions),
          NoWearable),
     Body(NoCred, Arr(<<Fever>>), NoStr, HotVitals, NoDemographics, NoWearable),
     Body(Cred("u1"), Arr(<<>>), Addendum, OkVitals, NoDemographics, NoWearable),
     Body(NoCred, NoSymptoms, NoStr, BadBpVitals, NoDemographics, NoWearable),
     Body(NoCred, StrSymptoms(Fever), NoStr, NoVitals, NoDemographics, NoWearable),
     Body(NoCred, Arr(<<Fever, Cough>>), NoStr, NoVitals, NoDemographics, NullWearable),
     Body(Cred("u1"), Arr(<<Fever, Cough>>), Addendum, NoVitals, NoDemographics, NoWearable) >>

\* ------------------------------------------------------ provider payloads
\* result.text of a provider call, tagged with the call that produced it:
\*   conclusive    a JSON object whose inconclusive flag is false or absent
\*   inconclusive  a JSON object with inconclusive: true
\*   null          the JSON text null
\*   falsy         a JSON scalar that is falsy in JS (0, false, "")
\*   garbage       text that is not JSON
\*   empty         no text at all ("" or undefined): JSON.parse is given "{}"
\*                 in its place and delivers an object with no keys
TextKinds == {"conclusive", "inconclusive", "null", "falsy", "garbage", "empty"}
ErrorNames == {"AbortError", "Error"}
Text(kind, call) == [kind |-> kind, call |-> call]
NoPayload == Text("none", 0)

\* JSON.parse(result.text || "{}"): throws on text that is not JSON
ParseThrows(text) == text.kind = "garbage"
\* reading diagnosis.inconclusive throws a TypeError on null
ReadThrows(diagnosis) == diagnosis.kind = "null"
Inconclusive(diagnosis) == diagnosis.kind = "inconclusive"
\* JS truthiness of a parsed payload or of a cache lookup
TruthyValue(v) == v.kind \in {"conclusive", "inconclusive", "empty"}

\* ------------------------------------------------------------- responses
Resp(status, code, error, suggestion, body) ==
  [status |-> status, code |-> code, error |-> error, suggestion |-> suggestion,
   body |-> body]

\* mutant of ConflictingVitals: the validator's suggestion is not forwarded
ConflictingVitals_NoSuggestion(v) == Resp(422, "CONFLICTING_VITALS", v.error, "", NoPayload)
ConflictingVitals(v) == Resp(422, "CONFLICTING_VITALS", v.error, v.suggestion, NoPayload)
NoSymptomsSelected ==
  Resp(400, "INCONCLUSIVE_SYMPTOMS", "No symptoms were selected.",
       "Please select at least one symptom from the list or body map.", NoPayload)
InconclusiveSymptoms ==
  Resp(422, "INCONCLUSIVE_SYMPTOMS",
       "The symptoms provided are too vague for a reliable assessment.",
       "Try adding more specific symptoms or using the 'Additional Details' field to describe your condition in more detail.",
       NoPayload)
ApiTimeout ==
  Resp(504, "API_TIMEOUT", "The analysis is taking longer than expected.",
       "Our AI is currently busy. Please try again in a few moments.", NoPayload)
ServerError ==
  Resp(500, "SERVER_ERROR", "An unexpected error occurred during analysis.",
       "Please try again. If the problem persists, check your internet connection.",
       NoPayload)
Ok(payload) == Resp(200, "", "", "", payload)

\* ----------------------------------------------------------------- state
VARIABLES
  now,             \* Date.now(), in hours
  diagnosisCache,  \* key -> [v: stored diagnosis, t: the hour it expires]
  cacheHits,
  cacheMisses,
  audit_logs,      \* the rows of table audit_logs, in insertion order
  req,             \* the requests: handler position, locals, response
  unit,            \* a direct call of validateVitals, selectModel or getCacheKey
  history          \* table history, its AUTOINCREMENT sequence, the last response

vars == <<now, diagnosisCache, cacheHits, cacheMisses, audit_logs, req, unit, history>>

Reqs == 1..MaxReqs

NoKey == Hash(<<>>)
\* a request that has not arrived yet.  pc, symptoms (req.body.symptoms, which
\* getCacheKey sorts in place), user_uid, modelName, cacheKey, cachedResult,
\* timer and res are the handler's; the rest records what the request did:
\* calls (provider invocations), lookups (cache lookups), hit, rows (the ids
\* of the audit rows it inserted), outcome (how its provider call ended),
\* auditFailed (its INSERT threw), storedAt (the hour it stored its diagnosis
\* in the cache, -1 when it did not).
Idle == [pc |-> "idle", input |-> 0, symptoms |-> NoSymptoms, user_uid |-> "",
         modelName |-> "", cacheKey |-> NoKey, cachedResult |-> NoPayload,
         timer |-> "none", res |-> <<>>,
         calls |-> 0, lookups |-> 0, hit |-> FALSE, rows |-> {},
         outcome |-> "none", auditFailed |-> FALSE, storedAt |-> -1]

\* table history is empty and no history request has been answered
NoHistory == [rows |-> {}, seq |-> 0,
              res |-> [route |-> "none", cred |-> NoCred, id |-> 0, status |-> 0,
                       body |-> {}]]

\* no direct call is being made
NoUnit == [fn |-> "none", pc |-> "none", symptoms |-> <<>>, other |-> <<>>,
           additionalInfo |-> NoStr, vitals |-> NoVitals,
           demographics |-> NoDemographics, ret |-> <<>>]

Init == /\ now = 0
        /\ diagnosisCache = <<>>
        /\ cacheHits = 0
        /\ cacheMisses = 0
        /\ audit_logs = <<>>
        /\ req = [r \in Reqs |-> Idle]
        /\ unit = NoUnit
        /\ history = NoHistory

\* ------------------------------------------------------------ NodeCache
Expired(entry, time) == entry.t < time
\* diagnosisCache.get(key): the stored value, or undefined
CacheGet(cache, key, time) ==
  IF key \in DOMAIN cache /\ ~Expired(cache[key], time) THEN cache[key].v ELSE NoPayload
\* mutant of CacheAfterGet: a read of a live entry starts its TTL again
CacheAfterGet_Touch(cache, key, time) ==
  IF key \in DOMAIN cache
  THEN IF Expired(cache[key], time)
       THEN [k \in DOMAIN cache \ {key} |-> cache[k]]
       ELSE [cache EXCEPT ![key].t = time + stdTTL]
  ELSE cache
\* get() deletes the entry it finds expired
CacheAfterGet(cache, key, time) ==
  IF key \in DOMAIN cache /\ Expired(cache[key], time)
  THEN [k \in DOMAIN cache \ {key} |-> cache[k]]
  ELSE cache
\* mutant of CacheSet: the TTL is lost, the entry expires as soon as time moves
CacheSet_NoTTL(cache, key, value, time) ==
  (key :> [v |-> value, t |-> time]) @@ cache
\* mutant of CacheSet: an entry that is there is not overwritten
CacheSet_KeepsFirst(cache, key, value, time) ==
  IF key \in DOMAIN cache THEN cache
  ELSE (key :> [v |-> value, t |-> time + stdTTL]) @@ cache
\* diagnosisCache.set(key, value): stdTTL counted from now
CacheSet(cache, key, value, time) ==
  (key :> [v |-> value, t |-> time + stdTTL]) @@ cache
\* the entries a lookup can still return
Live(cache, time) ==
  [k \in {x \in DOMAIN cache : ~Expired(cache[x], time)} |-> cache[k]]

\* ------------------------------------------------- handler of /api/diagnose
\* optionalAuthenticate and req.user?.uid || "anonymous"
UserUid(cred) == IF cred.t = "ok" /\ cred.uid # "" THEN cred.uid ELSE "anonymous"

\* mutant of HasSymptoms: only "!symptoms" is tested
HasSymptoms_OnlyDefined(symptoms) == symptoms.t # "undef"
\* symptoms && Array.isArray(symptoms) && symptoms.length > 0
HasSymptoms(symptoms) == symptoms.t = "arr" /\ Len(symptoms.v) > 0

\* mutant of CacheHit: the addendum is not looked at
CacheHit_IgnoresAddendum(cachedResult, additionalInfo) == TruthyValue(cachedResult)
\* cachedResult && !additionalInfo
CacheHit(cachedResult, additionalInfo) ==
  TruthyValue(cachedResult) /\ ~Truthy(additionalInfo)

\* mutant of Counted: a hit falls through to cacheMisses++ as well
Counted_FallsThrough(hit) ==
  [hits |-> IF hit THEN 1 ELSE 0, misses |-> 1]
\* cacheHits++ and return on a hit, cacheMisses++ otherwise: what a request
\* that reached the lookup adds to each counter
Counted(hit) ==
  [hits |-> IF hit THEN 1 ELSE 0, misses |-> IF hit THEN 0 ELSE 1]

\* mutant of StoresInCache: every diagnosis is stored
StoresInCache_Always(additionalInfo) == TRUE
\* if (!additionalInfo) diagnosisCache.set(...)
StoresInCache(additionalInfo) == ~Truthy(additionalInfo)

\* building wearableString throws a TypeError when wearableData is present and
\* sleepHours is null: null.toFixed(1)
PromptThrows(wearableData) == wearableData.def /\ wearableData.sleepHours.null

\* the catch block: the response for an error of the given name
Catch(errorName) == IF errorName = "AbortError" THEN ApiTimeout ELSE ServerError

\* mutant of InputData: the symptoms are hashed in the order of the request
InputData_AsSubmitted(symptoms, b) ==
  [symptoms |-> b.symptoms.v, additionalInfo |-> b.additionalInfo, vitals |-> b.vitals,
   demographics |-> b.demographics]
\* { symptoms, additionalInfo, vitals, demographics }: what the audit row hashes
InputData(symptoms, b) ==
  [symptoms |-> symptoms, additionalInfo |-> b.additionalInfo, vitals |-> b.vitals,
   demographics |-> b.demographics]
\* mutant of AuditRow: the baseline tier is recorded whatever was invoked
AuditRow_BaselineTier(user_uid, modelName, inputData, text) ==
  [user_uid |-> user_uid, model_used |-> ModelFlash, input_hash |-> Hash(inputData),
   response_hash |-> Hash(text)]
AuditRow(user_uid, modelName, inputData, text) ==
  [user_uid |-> user_uid, model_used |-> modelName, input_hash |-> Hash(inputData),
   response_hash |-> Hash(text)]

\* mutant of AfterProvider: the inconclusive check is made before the audit
\* row is inserted
AfterProvider_CheckBeforeAudit(text, auditOk, additionalInfo) ==
  IF ParseThrows(text)
  THEN [res |-> Catch("SyntaxError"), audited |-> FALSE, stored |-> FALSE]
  ELSE IF ReadThrows(text)
  THEN [res |-> Catch("TypeError"), audited |-> FALSE, stored |-> FALSE]
  ELSE IF Inconclusive(text)
  THEN [res |-> InconclusiveSymptoms, audited |-> FALSE, stored |-> FALSE]
  ELSE IF ~auditOk
  THEN [res |-> Catch("SqliteError"), audited |-> FALSE, stored |-> FALSE]
  ELSE [res |-> Ok(text), audited |-> TRUE, stored |-> StoresInCache(additionalInfo)]

\* the code after "await generateContent" for a call that returned text:
\* what is answered, whether the audit row was inserted, whether the
\* diagnosis was stored.  auditOk: the INSERT did not throw.
AfterProvider(text, auditOk, additionalInfo) ==
  IF ParseThrows(text)
  THEN [res |-> Catch("SyntaxError"), audited |-> FALSE, stored |-> FALSE]
  ELSE IF ~auditOk
  THEN [res |-> Catch("SqliteError"), audited |-> FALSE, stored |-> FALSE]
  ELSE IF ReadThrows(text)
  THEN [res |-> Catch("TypeError"), audited |-> TRUE, stored |-> FALSE]
  ELSE IF Inconclusive(text)
  THEN [res |-> InconclusiveSymptoms, audited |-> TRUE, stored |-> FALSE]
  ELSE [res |-> Ok(text), audited |-> TRUE, stored |-> StoresInCache(additionalInfo)]

\* mutant of Rejection: the symptoms are checked before the vitals
Rejection_SymptomsFirst(b) ==
  LET vitalsValidation == validateVitals(b.vitals)
  IN IF ~HasSymptoms(b.symptoms) THEN <<NoSymptomsSelected>>
     ELSE IF ~vitalsValidation.valid THEN <<ConflictingVitals(vitalsValidation)>>
     ELSE <<>>

\* the two input checks, in the order the handler makes them: the response
\* of the check that fails, or nothing
Rejection(b) ==
  LET vitalsValidation == validateVitals(b.vitals)
  IN IF ~vitalsValidation.valid THEN <<ConflictingVitals(vitalsValidation)>>
     ELSE IF ~HasSymptoms(b.symptoms) THEN <<NoSymptomsSelected>>
     ELSE <<>>

\* the handler up to its first await, run for input i as request r
Receive(r, i) ==
  /\ req[r].pc = "idle"
  /\ \A q \in 1..(r - 1) : req[q].pc # "idle"
  /\ LET b == Inputs[i]
         arrived == [Idle EXCEPT !.input = i, !.symptoms = b.symptoms,
                                 !.user_uid = UserUid(b.cred)]
     IN IF Rejection(b) # <<>>
        THEN /\ req' = [req EXCEPT ![r] =
                          [arrived EXCEPT !.pc = "done", !.res = Rejection(b)]]
             /\ UNCHANGED <<diagnosisCache, cacheHits, cacheMisses>>
        ELSE LET cacheKey == getCacheKey(b.symptoms.v, b.vitals, b.demographics)
                 cachedResult == CacheGet(diagnosisCache, cacheKey, now)
                 looked == [arrived EXCEPT !.symptoms = Arr(Sort(b.symptoms.v)),
                                           !.cacheKey = cacheKey,
                                           !.cachedResult = cachedResult,
                                           !.lookups = 1]
             IN /\ diagnosisCache' = CacheAfterGet(diagnosisCache, cacheKey, now)
                /\ cacheHits' = cacheHits + Counted(CacheHit(cachedResult, b.additionalInfo)).hits
                /\ cacheMisses' =
                     cacheMisses + Counted(CacheHit(cachedResult, b.additionalInfo)).misses
                /\ IF CacheHit(cachedResult, b.additionalInfo)
                   THEN /\ req' = [req EXCEPT ![r] =
                                     [looked EXCEPT !.pc = "done", !.hit = TRUE,
                                                    !.res = <<Ok(cachedResult)>>]]
                   ELSE LET modelName == selectModel(looked.symptoms.v, b.additionalInfo,
                                                        b.demographics)
                            missed == [looked EXCEPT !.modelName = modelName]
                        IN IF PromptThrows(b.wearableData)
                           THEN req' = [req EXCEPT ![r] =
                                          [missed EXCEPT !.pc = "done",
                                                         !.outcome = "TypeError",
                                                         !.res = <<Catch("TypeError")>>]]
                           ELSE req' = [req EXCEPT ![r] =
                                          [missed EXCEPT !.pc = "awaiting",
                                                         !.timer = "armed",
                                                         !.calls = 1]]
  /\ UNCHANGED <<now, audit_logs, unit, history>>

\* the 25 s timer of request r fires: controller.abort().  The controller's
\* signal is handed to nobody, so nothing but the controller changes.
TimerFires(r) ==
  /\ req[r].timer = "armed"
  /\ req' = [req EXCEPT ![r].timer = "fired"]
  /\ UNCHANGED <<now, diagnosisCache, cacheHits, cacheMisses, audit_logs, unit, history>>

\* generateContent of request r resolves with text of the given kind, and the
\* handler runs to its end.  clearTimeout(timeoutId) leaves a timer that can
\* no longer fire (it is a no-op on a timer that has fired).
ProviderReturns(r, kind, auditOk) ==
  /\ req[r].pc = "awaiting"
  /\ LET b == Inputs[req[r].input]
         text == Text(kind, r)
         after == AfterProvider(text, auditOk, b.additionalInfo)
         row == AuditRow(req[r].user_uid, req[r].modelName,
                         InputData(req[r].symptoms.v, b), text)
     IN /\ (auditOk \/ ~ParseThrows(text))
        /\ audit_logs' = IF after.audited THEN Append(audit_logs, row) ELSE audit_logs
        /\ diagnosisCache' = IF after.stored
                             THEN CacheSet(diagnosisCache, req[r].cacheKey, text, now)
                             ELSE diagnosisCache
        /\ req' = [req EXCEPT ![r].pc = "done",
                              ![r].timer = "cleared",
                              ![r].outcome = kind,
                              ![r].storedAt = IF after.stored THEN now ELSE -1,
                              ![r].auditFailed = ~auditOk,
                              ![r].rows = IF after.audited THEN {Len(audit_logs) + 1} ELSE {},
                              ![r].res = Append(@, after.res)]
  /\ UNCHANGED <<now, cacheHits, cacheMisses, unit, history>>

\* mutant of ProviderThrows: a rejected call is made once more
ProviderThrows_Retries(r, errorName) ==
  /\ req[r].pc = "awaiting"
  /\ req' = IF req[r].calls < 2
            THEN [req EXCEPT ![r].calls = @ + 1]
            ELSE [req EXCEPT ![r].pc = "done",
                             ![r].outcome = errorName,
                             ![r].res = Append(@, Catch(errorName))]
  /\ UNCHANGED <<now, diagnosisCache, cacheHits, cacheMisses, audit_logs, unit, history>>

\* generateContent of request r rejects with an error of the given name; the
\* catch block answers.  clearTimeout is not reached: the timer stays as it is.
ProviderThrows(r, errorName) ==
  /\ req[r].pc = "awaiting"
  /\ req' = [req EXCEPT ![r].pc = "done",
                        ![r].outcome = errorName,
                        ![r].res = Append(@, Catch(errorName))]
  /\ UNCHANGED <<now, diagnosisCache, cacheHits, cacheMisses, audit_logs, unit, history>>

\* time passes.  Only the cache reads the clock, so the passage of time
\* shows only while the cache holds an entry.
Tick ==
  /\ now + TickHours <= MaxClock
  /\ DOMAIN diagnosisCache # {}
  /\ now' = now + TickHours
  /\ UNCHANGED <<diagnosisCache, cacheHits, cacheMisses, audit_logs, req, unit, history>>

\* the periodic sweep of NodeCache (checkperiod) deletes expired entries
CheckPeriod ==
  /\ \E k \in DOMAIN diagnosisCache : Expired(diagnosisCache[k], now)
  /\ diagnosisCache' = Live(diagnosisCache, now)
  /\ UNCHANGED <<now, cacheHits, cacheMisses, audit_logs, req, unit, history>>

Next ==
  \/ \E r \in Reqs, i \in 1..Len(Inputs) : Receive(r, i)
  \/ \E r \in Reqs : TimerFires(r)
  \/ \E r \in Reqs, kind \in TextKinds, auditOk \in BOOLEAN : ProviderReturns(r, kind, auditOk)
  \/ \E r \in Reqs, errorName \in ErrorNames : ProviderThrows(r, errorName)
  \/ Tick
  \/ CheckPeriod

Spec == Init /\ [][Next]_vars

\* timers fire: the event loop runs every timer that is due.  The provider is
\* outside the program and is given no fairness: it may never reply.
FairSpec == Spec /\ \A r \in Reqs : WF_vars(TimerFires(r))

\* ------------------------------------------- direct calls of the functions
\* all sequences over chars of length at most n
Strings(chars, n) == UNION {[1..k -> chars] : k \in 0..n}

TempChars == {"0", "2", "3", "4", "5", "9", ".", "-", "a"}
PartChars == {"0", "1", "2", "3", "8", "a"}
Names == {Cough, Fever, Headache}

\* an optional text: absent, or one of the strings
Opt(strings) == {NoStr} \cup {Str(x) : x \in strings}

NormalTemp == Str(<<"3", "0">>)
NormalBp == Str(<<"1", "2", "0", "/", "8", "0">>)
EqualBp == Str(<<"8", "0", "/", "8", "0">>)

\* a text of n characters
Chars(n) == Str([i \in 1..n |-> "x"])
\* a list of n symptom names
Repeat(n) == [i \in 1..n |-> Fever]
AddInfoArgs ==
  {NoStr, Chars(0), Chars(1)}
    \cup {Chars(n) : n \in (MaxAddInfoLen - Around)..(MaxAddInfoLen + Around)}
DemographicsArgs ==
  {NoDemographics, Demographics(NoStr), Demographics(Chars(0))}
    \cup {Demographics(Chars(n)) :
            n \in (MaxPreExistingLen - Around)..(MaxPreExistingLen + Around)}
ListArgs == {l \in Strings(Names, MaxListLen) : Len(l) >= 1}

ToCall(fn, symptoms, other, additionalInfo, vitals, demographics) ==
  [fn |-> fn, pc |-> "call", symptoms |-> symptoms, other |-> other,
   additionalInfo |-> additionalInfo, vitals |-> vitals,
   demographics |-> demographics, ret |-> <<>>]
\* the urgency of a condition: a tier, or something else
Urgencies == {"Routine", "Urgent", "Emergency", "Critical"}
Condition(urgency) == [urgency |-> urgency]
ConditionArgs == Strings({Condition(u) : u \in Urgencies}, MaxListLen)
\* l and m hold the same conditions, each as often
Reordered(l, m) ==
  /\ Len(l) = Len(m)
  /\ \A u \in Urgencies :
       Cardinality({i \in 1..Len(l) : l[i].urgency = u})
         = Cardinality({i \in 1..Len(m) : m[i].urgency = u})
ToCalculateRiskScore(conditions, reordered) ==
  [conditions |-> conditions, reordered |-> reordered]
    @@ ToCall("calculateRiskScore", <<>>, <<>>, NoStr, NoVitals, NoDemographics)
ToValidateVitals(vitals) ==
  ToCall("validateVitals", <<>>, <<>>, NoStr, vitals, NoDemographics)

\* the calls made: validateVitals on no vitals, on every temperature string
\* with a few blood pressures, and on every blood-pressure string (no "/",
\* one "/", two "/") with a few temperatures; selectModel around its
\* thresholds; getCacheKey on every pair of symptom lists; calculateRiskScore
\* on every list of conditions with each of its reorderings
UnitInit ==
  /\ \/ unit = ToValidateVitals(NoVitals)
     \/ \E t \in Opt(Strings(TempChars, MaxTempLen)), bp \in {NoStr, NormalBp, EqualBp} :
          unit = ToValidateVitals(Vitals(t, bp))
     \/ \E t \in {NoStr, NormalTemp}, bp \in Opt(Strings(PartChars, MaxPartLen)) :
          unit = ToValidateVitals(Vitals(t, bp))
     \/ \E t \in {NoStr, NormalTemp}, s \in Strings(PartChars, MaxPartLen + 1),
           d \in Strings(PartChars, MaxPartLen) :
          unit = ToValidateVitals(Vitals(t, Str(s \o <<"/">> \o d)))
     \/ \E s \in Strings(PartChars, 1), d \in Strings(PartChars, MaxPartLen) :
          unit = ToValidateVitals(Vitals(NoStr, Str(s \o <<"/">> \o d \o <<"/">>)))
     \/ \E n \in 0..(MaxSimpleSymptoms + Around), a \in AddInfoArgs, d \in DemographicsArgs :
          unit = ToCall("selectModel", Repeat(n), <<>>, a, NoVitals, d)
     \/ \E l \in ListArgs, m \in ListArgs, v \in {NoVitals, Vitals(NormalTemp, NoStr)} :
          unit = ToCall("getCacheKey", l, m, NoStr, v, NoDemographics)
     \/ \E l \in ConditionArgs : \E m \in {x \in ConditionArgs : Reordered(l, x)} :
          unit = ToCalculateRiskScore(l, m)
  /\ now = 0
  /\ diagnosisCache = <<>>
  /\ cacheHits = 0
  /\ cacheMisses = 0
  /\ audit_logs = <<>>
  /\ req = [r \in Reqs |-> Idle]
  /\ history = NoHistory

Rest == UNCHANGED <<now, diagnosisCache, cacheHits, cacheMisses, audit_logs, req, history>>

CallValidateVitals ==
  /\ unit.fn = "validateVitals" /\ unit.pc = "call"
  /\ unit' = [unit EXCEPT !.pc = "returned", !.ret = validateVitals(unit.vitals)]
  /\ Rest

CallSelectModel ==
  /\ unit.fn = "selectModel" /\ unit.pc = "call"
  /\ unit' = [unit EXCEPT !.pc = "returned",
                          !.ret = selectModel(unit.symptoms, unit.additionalInfo,
                                              unit.demographics)]
  /\ Rest

\* getCacheKey is called on each of the two lists: the two keys
CallGetCacheKey ==
  /\ unit.fn = "getCacheKey" /\ unit.pc = "call"
  /\ unit' = [unit EXCEPT !.pc = "returned",
                          !.ret = <<getCacheKey(unit.symptoms, unit.vitals, unit.demographics),
                                    getCacheKey(unit.other, unit.vitals, unit.demographics)>>]
  /\ Rest

\* calculateRiskScore is called on the list, on its reordering and on the
\* list without the conditions of unknown urgency: the three scores
CallCalculateRiskScore ==
  /\ unit.fn = "calculateRiskScore" /\ unit.pc = "call"
  /\ unit' = [unit EXCEPT !.pc = "returned",
                          !.ret = <<calculateRiskScore(unit.conditions),
                                    calculateRiskScore(unit.reordered),
                                    calculateRiskScore(Known(unit.conditions))>>]
  /\ Rest

UnitNext ==
  CallValidateVitals \/ CallSelectModel \/ CallGetCacheKey \/ CallCalculateRiskScore

UnitSpec == UnitInit /\ [][UnitNext]_vars

\* ------------------------------------------------- the /api/history routes
Users == {"u1", "u2"}
HistoryCreds == {NoCred, BadCred} \cup {Cred(u) : u \in Users}
\* authenticateUser: the token is there and verifyIdToken accepts it
Authenticated(cred) == cred.t = "ok"

HistoryResp(route, cred, id, status, body) ==
  [route |-> route, cred |-> cred, id |-> id, status |-> status, body |-> body]

\* mutant of Owned: the row is matched by its id alone
Owned_AnyUser(row, id, user_uid) == row.id = id
\* WHERE id = ? AND user_uid = ?
Owned(row, id, user_uid) == row.id = id /\ row.user_uid = user_uid
\* WHERE user_uid = ?
OwnRows(rows, user_uid) == {row \in rows : row.user_uid = user_uid}

Others == UNCHANGED <<now, diagnosisCache, cacheHits, cacheMisses, audit_logs, req, unit>>

\* POST /api/history: insert a row for the caller
PostHistory(cred) ==
  /\ IF ~Authenticated(cred)
     THEN history' = [history EXCEPT !.res = HistoryResp("POST", cred, 0, 401, {})]
     ELSE /\ history.seq < MaxRows
          /\ history' = [rows |-> history.rows \cup
                                    {[id |-> history.seq + 1, user_uid |-> cred.uid]},
                          seq |-> history.seq + 1,
                          res |-> HistoryResp("POST", cred, history.seq + 1, 200, {})]
  /\ Others

\* GET /api/history: the caller's rows
GetHistory(cred) ==
  /\ history' = [history EXCEPT !.res =
                    IF ~Authenticated(cred)
                    THEN HistoryResp("GET", cred, 0, 401, {})
                    ELSE HistoryResp("GET", cred, 0, 200, OwnRows(history.rows, cred.uid))]
  /\ Others

\* DELETE /api/history/:id
DeleteHistory(cred, id) ==
  /\ IF ~Authenticated(cred)
     THEN history' = [history EXCEPT !.res = HistoryResp("DELETE", cred, id, 401, {})]
     ELSE LET deleted == {row \in history.rows : Owned(row, id, cred.uid)}
          IN history' = [history EXCEPT
                           !.rows = @ \ deleted,
                           !.res = HistoryResp("DELETE", cred, id,
                                               IF Cardinality(deleted) = 0 THEN 404 ELSE 200,
                                               {})]
  /\ Others

HistoryNext ==
  \/ \E cred \in HistoryCreds : PostHistory(cred)
  \/ \E cred \in HistoryCreds : GetHistory(cred)
  \/ \E cred \in HistoryCreds, id \in 1..(MaxRows + 1) : DeleteHistory(cred, id)

HistorySpec == Init /\ [][HistoryNext]_vars

\* ----------------------------------------------------------- vocabulary
Done(r) == req[r].pc = "done"
Input(r) == Inputs[req[r].input]
Answer(r) == req[r].res[1]
\* the step is request r arriving
Arrives(r) == req[r].pc = "idle" /\ req'[r].pc # "idle"
\* the step is the provider call of request r settling
Settles(r) == req[r].pc = "awaiting" /\ req'[r].pc = "done"
Frame == UNCHANGED <<diagnosisCache, cacheHits, cacheMisses, audit_logs>>

\* ------------------------------------------------------------------ C1
\* C1: a request whose provider call settles after its 25 s timer has fired is
\* answered with API_TIMEOUT (504), and its completion writes no audit row
\* and no cache entry.
C1_LateCallTimesOut ==
  [][\A r \in Reqs :
       (Settles(r) /\ req[r].timer = "fired")
         => /\ req'[r].res = <<ApiTimeout>>
            /\ audit_logs' = audit_logs
            /\ diagnosisCache' = diagnosisCache]_vars

\* ------------------------------------------------------------------ C2
\* C2: every request that has invoked the provider is eventually answered,
\* with exactly one response, also when the provider never replies.
C2_EveryCallAnswered ==
  \A r \in Reqs :
    (req[r].pc = "awaiting") ~> (req[r].pc = "done" /\ Len(req[r].res) = 1)

\* ------------------------------------------------------------------ C3
\* the requests C3 is about: at least one symptom, valid vitals, no addendum
Repeatable(b) ==
  /\ b.symptoms.t = "arr"
  /\ Len(b.symptoms.v) >= 1
  /\ validateVitals(b.vitals).valid
  /\ ~Truthy(b.additionalInfo)
\* r was answered on the miss path with the JSON object its own call returned
AnsweredOwnDiagnosis(r) ==
  /\ Done(r)
  /\ ~req[r].hit
  /\ req[r].res = <<Ok(Text("conclusive", r))>>
\* no other request has stored a diagnosis under r's fingerprint after r did
LastWriter(r) ==
  \A q \in Reqs \ {r} :
    (req[q].cacheKey = req[r].cacheKey /\ req[q].storedAt # -1)
      => \A x \in req[q].rows, y \in req[r].rows : x < y

\* C3 (as claimed): when a repeatable request is submitted a second time after
\* the first submission was answered, both within the first stdTTL hours and
\* with no other request about, the provider is invoked at most once over the
\* two, the second is a cache hit and both get the same response.
C3_SecondCallAlwaysHits ==
  [][\A r1, r2 \in Reqs :
       (/\ r1 # r2
        /\ Arrives(r2)
        /\ Done(r1)
        /\ req'[r2].input = req[r1].input
        /\ Repeatable(Input(r1))
        /\ \A q \in Reqs \ {r1, r2} : req[q].pc = "idle"
        /\ now <= stdTTL)
         => /\ req[r1].calls + req'[r2].calls <= 1
            /\ req'[r2].hit
            /\ req'[r2].res = req[r1].res]_vars

\* C3 (amended): when the first submission of a repeatable request was
\* answered with the JSON object its provider call returned, a second
\* submission within stdTTL hours of that answer, no other request having
\* stored a diagnosis under the fingerprint since, is a cache hit with the
\* same response and does not invoke the provider: one invocation in all.
C3_SecondCallHitsAfterSuccess ==
  [][\A r1, r2 \in Reqs :
       (/\ r1 # r2
        /\ Arrives(r2)
        /\ req'[r2].input = req[r1].input
        /\ Repeatable(Input(r1))
        /\ AnsweredOwnDiagnosis(r1)
        /\ LastWriter(r1)
        /\ now <= req[r1].storedAt + stdTTL)
         => /\ req'[r2].pc = "done"
            /\ req'[r2].hit
            /\ req'[r2].res = req[r1].res
            /\ req[r1].calls + req'[r2].calls = 1]_vars

\* a second submission was answered from the cache with the first one's answer
C3_Witness ==
  \E r1, r2 \in Reqs :
    /\ r1 # r2
    /\ AnsweredOwnDiagnosis(r1)
    /\ Repeatable(Input(r1))
    /\ req[r2].input = req[r1].input
    /\ Done(r2)
    /\ req[r2].hit
    /\ req[r2].res = req[r1].res
    /\ now > req[r1].storedAt

\* ------------------------------------------------------------------ C4
\* C4: a step of a request that carries a non-empty addendum never answers
\* from the cache, never creates or overwrites a cache entry and leaves the
\* entries a lookup can return as they were; when such a request passes the
\* input checks it takes the miss path and, its prompt built, invokes the
\* provider, whether or not an entry exists for its fingerprint.
C4_AddendumBypassesCache ==
  [][\A r \in Reqs :
       (req'[r] # req[r] /\ Truthy(Inputs[req'[r].input].additionalInfo))
         => /\ ~req'[r].hit
            /\ cacheHits' = cacheHits
            /\ Live(diagnosisCache', now') = Live(diagnosisCache, now)
            /\ \A k \in DOMAIN diagnosisCache' :
                 k \in DOMAIN diagnosisCache /\ diagnosisCache'[k] = diagnosisCache[k]
            /\ (Arrives(r) /\ req'[r].lookups = 1)
                 => /\ cacheMisses' = cacheMisses + 1
                    /\ (~PromptThrows(Inputs[req'[r].input].wearableData)
                          => req'[r].pc = "awaiting" /\ req'[r].calls = 1)]_vars

\* a request with an addendum found an entry under its fingerprint and was
\* answered with the diagnosis of its own provider call
C4_Witness ==
  \E r \in Reqs :
    /\ Done(r)
    /\ Truthy(Input(r).additionalInfo)
    /\ TruthyValue(req[r].cachedResult)
    /\ req[r].calls = 1
    /\ req[r].res = <<Ok(Text("conclusive", r))>>
    /\ req[r].cacheKey \in DOMAIN diagnosisCache
    /\ diagnosisCache[req[r].cacheKey].v = req[r].cachedResult

\* ------------------------------------------------------------------ C5
\* r was answered with what the provider returned: a diagnosis, or the
\* model's own "inconclusive"
ProviderAnswered(r) ==
  /\ ~req[r].hit
  /\ (Answer(r).status = 200 \/ Answer(r) = InconclusiveSymptoms)
\* r ended in a cache hit, a validation rejection, a timeout or a failed
\* provider call
EndedWithoutResponse(r) ==
  \/ req[r].hit
  \/ Answer(r).code = "CONFLICTING_VITALS"
  \/ Answer(r) = NoSymptomsSelected
  \/ Answer(r) = ApiTimeout
  \/ (Answer(r) = ServerError /\ req[r].outcome \in ErrorNames)

\* C5: every audit row belongs to exactly one request and no request has more
\* than one; a request answered with a provider response (success or
\* inconclusive) has exactly one, holding the hash of that response; a
\* request that ended in a cache hit, a validation rejection, a timeout or a
\* failed provider call has none.
C5_AuditExactlyOnce ==
  /\ \A r \in Reqs : Cardinality(req[r].rows) <= 1 /\ req[r].rows \subseteq 1..Len(audit_logs)
  /\ \A r1, r2 \in Reqs : r1 # r2 => req[r1].rows \cap req[r2].rows = {}
  /\ Len(audit_logs) = Cardinality(UNION {req[r].rows : r \in Reqs})
  /\ \A r \in Reqs :
       Done(r) =>
         /\ ProviderAnswered(r)
              => /\ Cardinality(req[r].rows) = 1
                 /\ \A x \in req[r].rows :
                      audit_logs[x].response_hash = Hash(Text(req[r].outcome, r))
         /\ EndedWithoutResponse(r) => req[r].rows = {}

\* one request answered "inconclusive" and audited, another timed out and
\* not audited
C5_Witness ==
  \E r1, r2 \in Reqs :
    /\ Done(r1) /\ Done(r2)
    /\ Answer(r1) = InconclusiveSymptoms
    /\ Cardinality(req[r1].rows) = 1
    /\ Answer(r2) = ApiTimeout
    /\ req[r2].rows = {}
    /\ Len(audit_logs) = 1

\* ------------------------------------------------------------------ C6
\* C6: a request whose provider response has inconclusive = true is answered
\* with INCONCLUSIVE_SYMPTOMS (422), its audit row written.
C6_InconclusiveAnswered ==
  \A r \in Reqs :
    (Done(r) /\ req[r].outcome = "inconclusive")
      => /\ req[r].res = <<InconclusiveSymptoms>>
         /\ Cardinality(req[r].rows) = 1

\* ------------------------------------------------------------------ C7
\* C7: every cache entry under key k holds the text a provider call returned
\* to a finished request whose fingerprint is k and that had no addendum, and
\* the text is not flagged inconclusive; every cache hit returned a conclusive
\* diagnosis (a JSON object not flagged inconclusive, the object read in place
\* of an empty text included) produced for the same sorted symptoms, vitals
\* and demographics.
C7_CacheProvenance ==
  /\ \A k \in DOMAIN diagnosisCache :
       LET e == diagnosisCache[k]
           q == e.v.call
       IN /\ q \in Reqs
          /\ Done(q)
          /\ e.v = Text(req[q].outcome, q)
          /\ ~Inconclusive(e.v)
          /\ ~Truthy(Input(q).additionalInfo)
          /\ req[q].cacheKey = k
          /\ k = Hash([symptoms |-> Sort(Input(q).symptoms.v), vitals |-> Input(q).vitals,
                       demographics |-> Input(q).demographics])
  /\ \A r \in Reqs :
       (Done(r) /\ req[r].hit)
         => LET q == Answer(r).body.call
            IN /\ Answer(r).body.kind \in {"conclusive", "empty"}
               /\ q \in Reqs \ {r}
               /\ ~Truthy(Input(q).additionalInfo)
               /\ Sort(Input(q).symptoms.v) = Sort(Input(r).symptoms.v)
               /\ Input(q).vitals = Input(r).vitals
               /\ Input(q).demographics = Input(r).demographics

\* a request was answered from the entry stored under its fingerprint
C7_Witness ==
  \E r \in Reqs :
    /\ Done(r)
    /\ req[r].hit
    /\ req[r].cacheKey \in DOMAIN diagnosisCache
    /\ Answer(r).body = diagnosisCache[req[r].cacheKey].v

\* ------------------------------------------------------------------ C8
\* C8: when the audit INSERT fails after the provider returned a conclusive
\* diagnosis, the request is still answered with that diagnosis.
C8_AuditFailureStillAnswers ==
  \A r \in Reqs :
    (Done(r) /\ req[r].outcome = "conclusive" /\ req[r].auditFailed)
      => req[r].res = <<Ok(Text("conclusive", r))>>

\* ------------------------------------------------------------------ C9
\* C9: a request whose vitals fail validation is answered on arrival with
\* CONFLICTING_VITALS (422) and the validator's error and suggestion, makes
\* no cache lookup and no provider call, and leaves the cache, both counters
\* and the audit log unchanged.
C9_InvalidVitalsRejectedFirst ==
  [][\A r \in Reqs :
       (Arrives(r) /\ ~validateVitals(Inputs[req'[r].input].vitals).valid)
         => LET v == validateVitals(Inputs[req'[r].input].vitals)
            IN /\ req'[r].pc = "done"
               /\ req'[r].res = <<Resp(422, "CONFLICTING_VITALS", v.error, v.suggestion,
                                        NoPayload)>>
               /\ req'[r].lookups = 0
               /\ req'[r].calls = 0
               /\ Frame]_vars

\* a request with symptoms and invalid vitals was rejected while the cache
\* held an entry
C9_Witness ==
  \E r \in Reqs :
    /\ Done(r)
    /\ HasSymptoms(Input(r).symptoms)
    /\ Answer(r).code = "CONFLICTING_VITALS"
    /\ DOMAIN diagnosisCache # {}
    /\ cacheMisses = 1

\* ------------------------------------------------------------------ C10
\* C10: a request whose symptoms are missing, not a list or an empty list is
\* answered on arrival with a failure (400 or 422), whatever its other
\* fields, with no provider call, no cache lookup, and the cache, both
\* counters and the audit log unchanged.
C10_ZeroSymptomsAlwaysFails ==
  [][\A r \in Reqs :
       (/\ Arrives(r)
        /\ LET sy == Inputs[req'[r].input].symptoms
           IN sy.t \in {"undef", "str"} \/ Len(sy.v) = 0)
         => /\ req'[r].pc = "done"
            /\ Len(req'[r].res) = 1
            /\ req'[r].res[1].status \in {400, 422}
            /\ req'[r].res[1].body = NoPayload
            /\ req'[r].calls = 0
            /\ req'[r].lookups = 0
            /\ req'[r].rows = {}
            /\ Frame]_vars

\* an empty symptom list, sent with valid vitals and an addendum, was
\* rejected while the cache held an entry
C10_Witness ==
  \E r \in Reqs :
    /\ Done(r)
    /\ Input(r).symptoms = Arr(<<>>)
    /\ Truthy(Input(r).additionalInfo)
    /\ Answer(r) = NoSymptomsSelected
    /\ DOMAIN diagnosisCache # {}

\* ------------------------------------------- vocabulary of the direct calls
Returned(fn) == unit.fn = fn /\ unit.pc = "returned"
\* the temperature and blood pressure handed to validateVitals
TemperatureGiven == unit.vitals.def /\ Truthy(unit.vitals.temperature)
PressureGiven == unit.vitals.def /\ Truthy(unit.vitals.bloodPressure)
\* the number the temperature parses to
Temperature == parseFloat(IF TemperatureGiven THEN unit.vitals.temperature.s ELSE <<>>)
TemperatureParses == TemperatureGiven /\ ~Temperature.nan
\* the temperature against a whole number, in whole-number arithmetic
TemperatureBelow(n) == Temperature.m < n * Pow10(Temperature.d)
TemperatureAbove(n) == Temperature.m > n * Pow10(Temperature.d)
BpParts == split(IF PressureGiven THEN unit.vitals.bloodPressure.s ELSE <<>>, "/")
\* the blood pressure reads 's/d' with numeric s and d
PressureParses ==
  /\ PressureGiven
  /\ Len(BpParts) = 2
  /\ ~parseInt(BpParts[1]).nan
  /\ ~parseInt(BpParts[2]).nan
SystolicGiven == parseInt(BpParts[1]).m
DiastolicGiven == parseInt(BpParts[2]).m

\* ------------------------------------------------------------------ C11
\* C11: for every vitals whose temperature parses to a number t,
\* validateVitals fails with the "outside of physiological limits" error and
\* a suggestion when t < 30 or t > 45, and does not fail on the temperature
\* when 30 <= t <= 45.
C11_TemperatureRange ==
  (Returned("validateVitals") /\ TemperatureParses)
    => IF TemperatureBelow(30) \/ TemperatureAbove(45)
       THEN /\ ~unit.ret.valid
            /\ unit.ret.error = "The temperature provided is outside of physiological limits."
            /\ unit.ret.suggestion # ""
       ELSE unit.ret # TempInvalid

\* a temperature of exactly 45, written with a decimal, passed
C11_Witness ==
  /\ Returned("validateVitals")
  /\ unit.vitals.temperature = Str(<<"4", "5", ".", "0">>)
  /\ unit.vitals.bloodPressure = NoStr
  /\ unit.ret = Valid

\* ------------------------------------------------------------------ C12
\* C12: for every blood pressure 's/d' with numeric s and d such that
\* s <= d, or s > 300, or d < 20, validateVitals returns invalid.
C12_BadPressureRejected ==
  (/\ Returned("validateVitals")
   /\ PressureParses
   /\ (\/ SystolicGiven <= DiastolicGiven
       \/ SystolicGiven > 300
       \/ DiastolicGiven < 20))
    => ~unit.ret.valid

\* ------------------------------------------------------------------ C13
\* C13: for every blood pressure 's/d' with numeric s and d such that s > d,
\* s <= 300 and d >= 20, the temperature absent or within [30, 45],
\* validateVitals returns valid.
C13_GoodPressureAccepted ==
  (/\ Returned("validateVitals")
   /\ PressureParses
   /\ SystolicGiven > DiastolicGiven
   /\ SystolicGiven <= 300
   /\ DiastolicGiven >= 20
   /\ (\/ ~TemperatureGiven
       \/ (TemperatureParses /\ ~TemperatureBelow(30) /\ ~TemperatureAbove(45))))
    => unit.ret = Valid

\* 300/20, both limits at once, was accepted with a temperature of 30
C13_Witness ==
  /\ Returned("validateVitals")
  /\ unit.vitals.bloodPressure = Str(<<"3", "0", "0", "/", "2", "0">>)
  /\ unit.vitals.temperature = NormalTemp
  /\ unit.ret = Valid

\* ------------------------------------------------------------------ C14
\* C14: vitals whose temperature is absent or does not parse as a number, and
\* whose blood pressure is absent or does not split on "/" into exactly two
\* numeric parts, are valid.
C14_UnparseableIsValid ==
  (/\ Returned("validateVitals")
   /\ ~TemperatureParses
   /\ ~PressureParses)
    => unit.ret = Valid

\* ------------------------------------------------------------------ C15
\* C15: selectModel returns one of the two tiers, and the higher one exactly
\* when the addendum is longer than 200 characters, or the pre-existing
\* conditions are longer than 50 characters, or there are more than 5
\* symptoms; absent texts have no length.
C15_Escalation ==
  Returned("selectModel")
    => LET a == unit.additionalInfo
           d == unit.demographics
       IN /\ unit.ret \in {ModelPro, ModelFlash}
          /\ unit.ret = ModelPro
               <=> \/ (a.def /\ Len(a.s) > 200)
                   \/ (d.def /\ d.preExistingConditions.def
                         /\ Len(d.preExistingConditions.s) > 50)
                   \/ Len(unit.symptoms) > 5

\* the three thresholds at once gave the baseline tier
C15_Witness ==
  /\ Returned("selectModel")
  /\ unit.additionalInfo = Chars(200)
  /\ unit.demographics = Demographics(Chars(50))
  /\ Len(unit.symptoms) = 5
  /\ unit.ret = ModelFlash

\* ------------------------------------------------------------------ C16
\* how often name n occurs in list l
Count(l, n) == Cardinality({i \in 1..Len(l) : l[i] = n})
Permutation(l, m) == \A n \in Names : Count(l, n) = Count(m, n)
\* the names that occur in list l
NameSet(l) == {l[i] : i \in 1..Len(l)}

\* C16: for every non-empty symptom list and every permutation of it, the
\* vitals and demographics the same, getCacheKey returns the same key.
C16_OrderIndependent ==
  (/\ Returned("getCacheKey")
   /\ Len(unit.symptoms) >= 1
   /\ Permutation(unit.symptoms, unit.other))
    => unit.ret[1] = unit.ret[2]

\* three different names in two different orders gave one key
C16_Witness ==
  /\ Returned("getCacheKey")
  /\ unit.symptoms = <<Headache, Fever, Cough>>
  /\ unit.other = <<Fever, Cough, Headache>>
  /\ unit.ret[1] = unit.ret[2]

\* ------------------------------------------------------------------ C17
\* C17: two symptom lists that hold the same names, however often each is
\* repeated, the vitals and demographics the same, get the same key.
C17_SetSemantics ==
  (/\ Returned("getCacheKey")
   /\ NameSet(unit.symptoms) = NameSet(unit.other))
    => unit.ret[1] = unit.ret[2]

\* ------------------------------------------------------------------ C18
FailureCodes == {"CONFLICTING_VITALS", "INCONCLUSIVE_SYMPTOMS", "API_TIMEOUT", "SERVER_ERROR"}

\* C18: every response of the pipeline that is not a diagnosis carries one of
\* the failure codes, a message and a suggestion, none of them empty.
C18_FailuresCarryTriple ==
  \A r \in Reqs :
    \A i \in 1..Len(req[r].res) :
      LET a == req[r].res[i]
      IN a.status # 200
           => /\ a.code \in FailureCodes
              /\ a.error # ""
              /\ a.suggestion # ""
              /\ a.body = NoPayload

\* one request was rejected for its blood pressure with the validator's
\* texts, another was answered SERVER_ERROR
C18_Witness ==
  \E r1, r2 \in Reqs :
    /\ Done(r1) /\ Done(r2)
    /\ Answer(r1).code = "CONFLICTING_VITALS"
    /\ Answer(r1).error = BpInvalid.error
    /\ Answer(r1).suggestion = BpInvalid.suggestion
    /\ Answer(r2) = ServerError

\* ------------------------------------------------------------------ C19
\* the provider call of r ended in a failure that is not a timeout: it was
\* rejected with an error other than AbortError, or it returned a payload
\* that does not parse as JSON (text that is not JSON, or no text)
FailedNotTimeout(r) == req[r].outcome \in {"Error", "garbage", "empty"}

\* C19: a request whose provider call ended in a failure that is not a
\* timeout is answered with SERVER_ERROR, the same fixed response whatever
\* the failure was.
C19_FailuresAreGeneric ==
  \A r \in Reqs :
    (Done(r) /\ FailedNotTimeout(r)) => req[r].res = <<ServerError>>

\* ------------------------------------------------------------------ C20
\* C20: a request invokes the provider at most once: not at all when it is
\* rejected or answered from the cache, once while it waits for the provider,
\* and no second time however the invocation ended.
C20_NoRetry ==
  \A r \in Reqs :
    /\ req[r].calls <= 1
    /\ req[r].pc = "awaiting" => req[r].calls = 1
    /\ (Done(r) /\ req[r].outcome \in TextKinds \cup ErrorNames) => req[r].calls = 1

\* one invocation timed out and another returned text that is not JSON;
\* each request invoked the provider once
C20_Witness ==
  \E r1, r2 \in Reqs :
    /\ Done(r1) /\ Done(r2)
    /\ req[r1].outcome = "AbortError"
    /\ req[r2].outcome = "garbage"
    /\ req[r1].calls = 1
    /\ req[r2].calls = 1

\* ------------------------------------------------------------------ C21
\* the step is request r storing the diagnosis of its provider call under k
Stores(r, k) ==
  /\ Settles(r)
  /\ req[r].cacheKey = k
  /\ req'[r].storedAt = now
  /\ k \in DOMAIN diagnosisCache'
  /\ diagnosisCache'[k] = [v |-> Text(req'[r].outcome, r), t |-> now + stdTTL]

\* C21: every cache entry expires stdTTL hours after the request that wrote
\* it stored it.  A step leaves an entry as it is (a read does not extend
\* it), or removes it when it has expired, or replaces it by a new insertion.
\* A lookup returns an entry up to its expiry and never after it, and a
\* request without addendum that finds its entry expired invokes the provider.
C21_FixedTTL ==
  /\ [](\A k \in DOMAIN diagnosisCache :
         LET e == diagnosisCache[k]
         IN e.v.call \in Reqs /\ e.t = req[e.v.call].storedAt + stdTTL)
  /\ [][/\ \A k \in DOMAIN diagnosisCache :
             \/ k \in DOMAIN diagnosisCache' /\ diagnosisCache'[k] = diagnosisCache[k]
             \/ k \notin DOMAIN diagnosisCache' /\ now > diagnosisCache[k].t
             \/ \E r \in Reqs : Stores(r, k)
        /\ \A r \in Reqs :
             (Arrives(r) /\ req'[r].lookups = 1)
               => LET k == req'[r].cacheKey
                      b == Inputs[req'[r].input]
                  IN IF k \in DOMAIN diagnosisCache /\ now <= diagnosisCache[k].t
                     THEN /\ req'[r].cachedResult = diagnosisCache[k].v
                          /\ (TruthyValue(diagnosisCache[k].v) /\ ~Truthy(b.additionalInfo))
                               => req'[r].hit /\ req'[r].res = <<Ok(diagnosisCache[k].v)>>
                     ELSE /\ req'[r].cachedResult = NoPayload
                          /\ ~req'[r].hit
                          /\ ~PromptThrows(b.wearableData)
                               => req'[r].pc = "awaiting" /\ req'[r].calls = 1]_vars

\* a request found the entry of an identical earlier request expired and
\* invoked the provider again
C21_Witness ==
  \E r1, r2 \in Reqs :
    /\ r1 # r2
    /\ AnsweredOwnDiagnosis(r1)
    /\ Repeatable(Input(r1))
    /\ req[r1].storedAt # -1
    /\ req[r2].input = req[r1].input
    /\ req[r2].calls = 1
    /\ req[r2].cachedResult = NoPayload
    /\ now > req[r1].storedAt + stdTTL

\* ------------------------------------------------------------------ C22
\* the wearable summary is present and some field of it is not a number
BrokenWearable(b) ==
  /\ b.wearableData.def
  /\ (b.wearableData.avgSteps.null \/ b.wearableData.avgHeartRate.null
        \/ b.wearableData.sleepHours.null)

\* C22: a request whose wearable summary has fields that are not numbers and
\* that takes the miss path builds its prompt and invokes the provider; it
\* is not failed for its wearable data.
C22_BrokenWearableTolerated ==
  \A r \in Reqs :
    (req[r].lookups = 1 /\ ~req[r].hit /\ BrokenWearable(Input(r)))
      => /\ req[r].calls = 1
         /\ req[r].outcome # "TypeError"

\* ------------------------------------------------------------------ C23
\* the requests that passed both input checks
Looked == {r \in Reqs : req[r].lookups = 1}

\* C23: the hit counter counts the requests answered from the cache and the
\* miss counter the other requests that passed both input checks, a request
\* with an addendum among them whatever the cache holds; the arrival of a
\* request that passes the checks adds one to exactly one counter, no other
\* step changes a counter, and no counter decreases.
C23_CountersAddUp ==
  /\ [](/\ cacheHits = Cardinality({r \in Looked : req[r].hit})
        /\ cacheMisses = Cardinality({r \in Looked : ~req[r].hit})
        /\ cacheHits + cacheMisses = Cardinality(Looked)
        /\ \A r \in Looked : Truthy(Input(r).additionalInfo) => ~req[r].hit)
  /\ [][/\ cacheHits' >= cacheHits
        /\ cacheMisses' >= cacheMisses
        /\ (cacheHits' + cacheMisses') - (cacheHits + cacheMisses)
             = Cardinality({r \in Reqs : Arrives(r) /\ req'[r].lookups = 1})
        /\ (cacheHits' + cacheMisses') - (cacheHits + cacheMisses) <= 1]_vars

\* a request with an addendum was counted as the second miss although its
\* fingerprint had an entry, and is waiting for the provider
C23_Witness ==
  /\ cacheHits = 0
  /\ cacheMisses = 2
  /\ \E r \in Reqs :
       /\ Truthy(Input(r).additionalInfo)
       /\ TruthyValue(req[r].cachedResult)
       /\ req[r].pc = "awaiting"

\* ------------------------------------------------------------------ C24
\* the tier the request of body b is to get
TierOf(b) ==
  IF \/ (b.additionalInfo.def /\ Len(b.additionalInfo.s) > 200)
     \/ (b.demographics.def /\ b.demographics.preExistingConditions.def
           /\ Len(b.demographics.preExistingConditions.s) > 50)
     \/ Len(b.symptoms.v) > 5
  THEN "gemini-3.1-pro-preview"
  ELSE "gemini-3-flash-preview"

\* C24: the audit row of a request holds the verified user identifier of its
\* credential, or "anonymous" when it has none or one that fails
\* verification, and the tier selectModel chose for it, which is the tier
\* its provider call was made with; a request is never rejected for its
\* credential.
C24_AuditIdentityAndTier ==
  \A r \in Reqs :
    /\ \A x \in req[r].rows :
         /\ audit_logs[x].user_uid =
              (IF Input(r).cred.t = "ok" THEN Input(r).cred.uid ELSE "anonymous")
         /\ audit_logs[x].model_used = TierOf(Input(r))
         /\ audit_logs[x].model_used = req[r].modelName
    /\ req[r].calls = 1 => req[r].modelName = TierOf(Input(r))
    /\ (req[r].pc # "idle" /\ Rejection(Input(r)) = <<>>) => req[r].lookups = 1

\* a request with a credential that fails verification was audited as
\* anonymous with the higher tier, and a request of user u1 with the baseline
\* tier
C24_Witness ==
  \E r1, r2 \in Reqs, x1, x2 \in 1..Len(audit_logs) :
    /\ Done(r1) /\ Done(r2)
    /\ Input(r1).cred = BadCred
    /\ req[r1].rows = {x1}
    /\ audit_logs[x1].user_uid = "anonymous"
    /\ audit_logs[x1].model_used = ModelPro
    /\ Input(r2).cred = Cred("u1")
    /\ req[r2].rows = {x2}
    /\ audit_logs[x2].user_uid = "u1"
    /\ audit_logs[x2].model_used = ModelFlash

\* ------------------------------------------------------------------ C25
\* C25: a request with invalid vitals and no symptom is answered with
\* CONFLICTING_VITALS (422) and with nothing else.
C25_VitalsCheckedFirst ==
  \A r \in Reqs :
    (/\ req[r].pc # "idle"
     /\ ~validateVitals(Input(r).vitals).valid
     /\ ~(Input(r).symptoms.t = "arr" /\ Len(Input(r).symptoms.v) > 0))
      => /\ Done(r)
         /\ Len(req[r].res) = 1
         /\ Answer(r).status = 422
         /\ Answer(r).code = "CONFLICTING_VITALS"

\* a request without symptoms and with a blood pressure of 80/120 was
\* answered with the blood-pressure error
C25_Witness ==
  \E r \in Reqs :
    /\ Done(r)
    /\ Input(r).symptoms = NoSymptoms
    /\ Input(r).vitals = BadBpVitals
    /\ req[r].res = <<ConflictingVitals(BpInvalid)>>

\* ------------------------------------------------------------------ C26
\* C26: a DELETE of record id by an authenticated user u removes the record
\* with that id when it belongs to u, and nothing else; otherwise it answers
\* 404 and leaves the table as it is.  A GET by u answers the records of u,
\* all of them and no others, and leaves the table as it is.
C26_HistoryScopedToOwner ==
  [][LET p == history'.res
         u == p.cred.uid
         own == {row \in history.rows : row.id = p.id /\ row.user_uid = u}
     IN /\ (p.route = "DELETE" /\ Authenticated(p.cred))
             => IF own # {}
                THEN /\ history'.rows = history.rows \ own
                     /\ Cardinality(own) = 1
                     /\ p.status = 200
                ELSE /\ history'.rows = history.rows
                     /\ p.status = 404
        /\ (p.route = "GET" /\ Authenticated(p.cred))
             => /\ history'.rows = history.rows
                /\ p.status = 200
                /\ p.body = {row \in history.rows : row.user_uid = u}
        /\ ~Authenticated(p.cred) => history'.rows = history.rows]_history

\* u2 asked to delete a record of u1 and was answered 404; the record is
\* still there
C26_Witness ==
  /\ history.res.route = "DELETE"
  /\ history.res.cred = Cred("u2")
  /\ history.res.status = 404
  /\ \E row \in history.rows : row.id = history.res.id /\ row.user_uid = "u1"

\* ------------------------------------------------------------------ C27
\* the provider call of r returned a conclusive diagnosis and its audit row
\* was inserted
OwnConclusive(r) ==
  /\ Done(r)
  /\ ~req[r].hit
  /\ req[r].outcome = "conclusive"
  /\ ~req[r].auditFailed
\* the requests that stored a diagnosis under fingerprint k
Writers(k) == {q \in Reqs : req[q].cacheKey = k /\ req[q].storedAt # -1}
\* of those, the one that wrote last: its audit row is the latest
LastOf(k) ==
  CHOOSE q \in Writers(k) :
    \A p \in Writers(k) : \A x \in req[p].rows : \A y \in req[q].rows : x <= y

\* C27: a request without addendum that arrives while an identical request
\* is waiting for its provider call, the cache holding no live diagnosis for
\* them, is counted as a miss like the first and invokes the provider itself.
\* When the provider calls of two identical requests without addendum both
\* return a conclusive diagnosis and both audit rows are inserted, each
\* request has written one audit row of its own and is answered with the
\* diagnosis of its own call, and the cache entry of their fingerprint, while
\* it is there, holds the diagnosis of the request that wrote last.
C27_OverlapUncoordinated ==
  /\ [](\A r1, r2 \in Reqs :
         (/\ r1 # r2
          /\ OwnConclusive(r1)
          /\ OwnConclusive(r2)
          /\ req[r1].input = req[r2].input
          /\ Repeatable(Input(r1)))
           => LET k == req[r1].cacheKey
              IN /\ \A r \in {r1, r2} :
                      /\ req[r].lookups = 1
                      /\ req[r].calls = 1
                      /\ req[r].res = <<Ok(Text("conclusive", r))>>
                      /\ \E x \in DOMAIN audit_logs :
                           /\ req[r].rows = {x}
                           /\ audit_logs[x].response_hash = Hash(Text("conclusive", r))
                 /\ req[r1].rows # req[r2].rows
                 /\ {r1, r2} \subseteq Writers(k)
                 /\ k \in DOMAIN diagnosisCache
                      => diagnosisCache[k].v = Text(req[LastOf(k)].outcome, LastOf(k)))
  /\ [][\A r1, r2 \in Reqs :
          (/\ r1 # r2
           /\ req[r1].pc = "awaiting"
           /\ Arrives(r2)
           /\ req'[r2].input = req[r1].input
           /\ Repeatable(Input(r1))
           /\ ~TruthyValue(CacheGet(diagnosisCache, req[r1].cacheKey, now)))
            => /\ req[r1].lookups = 1 /\ ~req[r1].hit /\ req[r1].calls = 1
               /\ req'[r2].lookups = 1 /\ ~req'[r2].hit /\ req'[r2].calls = 1
               /\ req'[r2].pc = "awaiting"
               /\ cacheMisses' = cacheMisses + 1
               /\ cacheHits' = cacheHits
               /\ cacheMisses' >= 2
               /\ req'[r1] = req[r1]]_vars

\* two identical requests overlapped: the first to arrive was the last to
\* write, and the cache holds its diagnosis, not the second's
C27_Witness ==
  \E r1, r2 \in Reqs :
    /\ r1 < r2
    /\ OwnConclusive(r1)
    /\ OwnConclusive(r2)
    /\ req[r1].input = req[r2].input
    /\ Repeatable(Input(r1))
    /\ \A x \in req[r1].rows, y \in req[r2].rows : y < x
    /\ req[r1].cacheKey \in DOMAIN diagnosisCache
    /\ diagnosisCache[req[r1].cacheKey].v = Text("conclusive", r1)
    /\ cacheMisses = 2

\* ------------------------------------------------------------------ C28
\* C28: a request answered with SERVER_ERROR has inserted no audit row and
\* stored nothing in the cache, whatever payload its provider call returned.
C28_ServerErrorWritesNothing ==
  \A r \in Reqs :
    (Done(r) /\ Answer(r) = ServerError)
      => /\ req[r].rows = {}
         /\ req[r].storedAt = -1

\* ------------------------------------------------------------------ C29
\* requests a and b differ at most in the order of their symptoms
SameButOrder(a, b) ==
  /\ a.symptoms.t = "arr"
  /\ b.symptoms.t = "arr"
  /\ Permutation(a.symptoms.v, b.symptoms.v)
  /\ a.cred = b.cred
  /\ a.additionalInfo = b.additionalInfo
  /\ a.vitals = b.vitals
  /\ a.demographics = b.demographics
  /\ a.wearableData = b.wearableData

\* C29: once a request has looked up the cache, the symptom list its prompt
\* and its audit row are built from is the sorted one; two requests that
\* differ only in the order of their symptoms and whose audit rows were
\* written have the same symptom list for the prompt and the same input hash
\* in their audit rows, the hash of the input with the symptoms sorted.
C29_AuditHashOrderFree ==
  /\ \A r \in Reqs :
       req[r].lookups = 1
         => /\ req[r].symptoms = Arr(Sort(Input(r).symptoms.v))
            /\ \A x \in req[r].rows :
                 audit_logs[x].input_hash =
                   Hash([symptoms |-> Sort(Input(r).symptoms.v),
                         additionalInfo |-> Input(r).additionalInfo,
                         vitals |-> Input(r).vitals,
                         demographics |-> Input(r).demographics])
  /\ \A r1, r2 \in Reqs :
       (/\ req[r1].rows # {}
        /\ req[r2].rows # {}
        /\ SameButOrder(Input(r1), Input(r2)))
         => /\ req[r1].symptoms = req[r2].symptoms
            /\ \A x \in req[r1].rows, y \in req[r2].rows :
                 audit_logs[x].input_hash = audit_logs[y].input_hash

\* two requests with the same symptoms in different orders both took the miss
\* path and have audit rows with one input hash
C29_Witness ==
  \E r1, r2 \in Reqs, x1, x2 \in 1..Len(audit_logs) :
    /\ Done(r1) /\ Done(r2)
    /\ SameButOrder(Input(r1), Input(r2))
    /\ Input(r1).symptoms.v # Input(r2).symptoms.v
    /\ Input(r1).symptoms.v # Sort(Input(r1).symptoms.v)
    /\ req[r1].rows = {x1}
    /\ req[r2].rows = {x2}
    /\ x1 # x2
    /\ audit_logs[x1].input_hash = audit_logs[x2].input_hash

\* ------------------------------------------------------------------ C30
\* some condition of the list has the urgency
Present(conditions, urgency) ==
  \E i \in 1..Len(conditions) : conditions[i].urgency = urgency

\* C30: calculateRiskScore returns Emergency when some condition is an
\* Emergency, else Urgent when some condition is Urgent, else Routine, so
\* Routine for the empty list; it returns the same for the list without its
\* conditions of unknown urgency and for the list in any other order.
C30_HighestTier ==
  Returned("calculateRiskScore")
    => /\ unit.ret[1] = (IF Present(unit.conditions, "Emergency") THEN "Emergency"
                         ELSE IF Present(unit.conditions, "Urgent") THEN "Urgent"
                         ELSE "Routine")
       /\ unit.conditions = <<>> => unit.ret[1] = "Routine"
       /\ unit.ret[3] = unit.ret[1]
       /\ unit.ret[2] = unit.ret[1]

\* Urgent for a list of an Emergency not spelt as a tier, an Urgent and a
\* Routine condition, in this order and in another
C30_Witness ==
  /\ Returned("calculateRiskScore")
  /\ unit.conditions = <<Condition("Critical"), Condition("Urgent"), Condition("Routine")>>
  /\ unit.reordered # unit.conditions
  /\ unit.ret = <<"Urgent", "Urgent", "Urgent">>

====
